---- MODULE Spec2Model ----
(***************************************************************************)
(* Model of src/utils/query.py: the payload builder (prepare_text_input,   *)
(* prepare_input), the argument parser (parse_arguments_string) and the    *)
(* violation stream emitter (create_violation_stream).                     *)
(*                                                                         *)
(* Python strings that are concatenated, trimmed, searched or parsed are   *)
(* sequences of one-character strings.  Strings that are only stored and   *)
(* compared (the emitter's message, model and identifiers) are TLA+        *)
(* strings.  An Optional[str] is a sequence of length 0 (None) or 1.       *)
(***************************************************************************)
EXTENDS Integers, Sequences, FiniteSets, TLC

VARIABLES
    heap,           \* emitter: the response objects allocated so far (address = index)
    gens,           \* emitter: per invocation, the generator frame
    received,       \* emitter: per invocation, the events the consumer holds
    pulls,          \* emitter: per invocation, the number of __anext__ calls made
    query_request,  \* builder: the QueryRequest under consideration
    text_result,    \* builder: Optional result of prepare_text_input(query_request)
    input_result,   \* builder: Optional result of prepare_input(query_request)
    arguments_str,  \* parser: the input string
    parse_result    \* parser: Optional outcome of parse_arguments_string(arguments_str)

vars == <<heap, gens, received, pulls, query_request, text_result, input_result,
          arguments_str, parse_result>>

streamVars == <<heap, gens, received, pulls>>
inputVars  == <<query_request, text_result, input_result>>
parseVars  == <<arguments_str, parse_result>>

None == <<>>
Some(x) == <<x>>

(***************************************************************************)
(* Bounds                                                                  *)
(***************************************************************************)
MaxInvocations == 2
MaxPulls == 7

Invocations == 1..MaxInvocations

(***************************************************************************)
(* Violation stream emitter                                                *)
(***************************************************************************)
Messages == {"", "blocked"}
ShieldModels == {None, Some(""), Some("llama-guard")}

\* a Python str is falsy exactly when it is empty; None is falsy
Truthy(opt) == opt # None /\ opt[1] # ""

response_id == "resp_shield_violation"

\* mutation: `shield_model if shield_model is not None else "shield"`
ModelOr_is_not_none(shield_model) ==
    IF shield_model # None THEN shield_model[1] ELSE "shield"

\* `shield_model or "shield"`
ModelOr(shield_model) == IF Truthy(shield_model) THEN shield_model[1] ELSE "shield"

OpenAIResponseObject(shield_model) ==
    [id |-> response_id, created_at |-> 0, model |-> ModelOr(shield_model),
     output |-> <<>>, status |-> "in_progress"]

\* mutation: a later invocation reuses the response object built last
NewAddr_reused == IF heap = <<>> THEN Len(heap) + 1 ELSE Len(heap)

\* the address a newly constructed object gets: one no live object has
NewAddr == Len(heap) + 1

ResponseCreated(addr) == [type |-> "response.created", response |-> addr]

ContentPartAdded ==
    [type |-> "response.content_part.added", content_index |-> 0,
     response_id |-> response_id, item_id |-> "msg_shield_violation_1",
     output_index |-> 0, part |-> [type |-> "output_text", text |-> ""],
     sequence_number |-> 0]

\* mutation: the delta repeats the sequence number of the part event
OutputTextDelta_seq0(message) ==
    [type |-> "response.output_text.delta", content_index |-> 1, delta |-> message,
     item_id |-> "msg_shield_violation_2", output_index |-> 1, sequence_number |-> 0]

OutputTextDelta(message) ==
    [type |-> "response.output_text.delta", content_index |-> 1, delta |-> message,
     item_id |-> "msg_shield_violation_2", output_index |-> 1, sequence_number |-> 1]

OutputTextDone(message) ==
    [type |-> "response.output_text.done", content_index |-> 2, text |-> message,
     item_id |-> "msg_shield_violation_3", output_index |-> 2, sequence_number |-> 2]

OpenAIResponseMessage(message) ==
    [id |-> "msg_shield_violation_4",
     content |-> <<[type |-> "output_text", text |-> message]>>,
     role |-> "assistant", status |-> "completed"]

ResponseCompleted(addr) == [type |-> "response.completed", response |-> addr]

NotCalled == [pc |-> "uncalled", message |-> "", shield_model |-> None, response_obj |-> 0]

\* calling the async generator function binds the arguments; no body code runs
create_violation_stream(g, message, shield_model) ==
    /\ gens[g].pc = "uncalled"
    /\ gens' = [gens EXCEPT ![g] = [pc |-> "start", message |-> message,
                                    shield_model |-> shield_model, response_obj |-> 0]]
    /\ UNCHANGED <<heap, received, pulls>>
    /\ UNCHANGED <<inputVars, parseVars>>

Yield(g, event) ==
    /\ received' = [received EXCEPT ![g] = Append(@, event)]
    /\ pulls' = [pulls EXCEPT ![g] = @ + 1]

\* first __anext__: lines 162-172
RunToCreated(g) ==
    /\ gens[g].pc = "start"
    /\ heap' = Append(heap, OpenAIResponseObject(gens[g].shield_model))
    /\ gens' = [gens EXCEPT ![g].pc = "created", ![g].response_obj = NewAddr]
    /\ Yield(g, ResponseCreated(NewAddr))
    /\ UNCHANGED <<inputVars, parseVars>>

\* lines 174-182
RunToContentPartAdded(g) ==
    /\ gens[g].pc = "created"
    /\ gens' = [gens EXCEPT ![g].pc = "part_added"]
    /\ Yield(g, ContentPartAdded)
    /\ UNCHANGED heap
    /\ UNCHANGED <<inputVars, parseVars>>

\* lines 184-191
RunToOutputTextDelta(g) ==
    /\ gens[g].pc = "part_added"
    /\ gens' = [gens EXCEPT ![g].pc = "delta"]
    /\ Yield(g, OutputTextDelta(gens[g].message))
    /\ UNCHANGED heap
    /\ UNCHANGED <<inputVars, parseVars>>

\* mutation: the status is set before the text-done event instead of after it
RunToOutputTextDone_early(g) ==
    /\ gens[g].pc = "delta"
    /\ gens' = [gens EXCEPT ![g].pc = "done"]
    /\ received' = [received EXCEPT ![g] = Append(@, OutputTextDone(gens[g].message))]
    /\ pulls' = [pulls EXCEPT ![g] = @ + 1]
    /\ heap' = [heap EXCEPT ![gens[g].response_obj].status = "completed"]
    /\ UNCHANGED <<inputVars, parseVars>>

\* lines 193-200
RunToOutputTextDone(g) ==
    /\ gens[g].pc = "delta"
    /\ gens' = [gens EXCEPT ![g].pc = "done"]
    /\ Yield(g, OutputTextDone(gens[g].message))
    /\ UNCHANGED heap
    /\ UNCHANGED <<inputVars, parseVars>>

\* lines 202-215
RunToCompleted(g) ==
    /\ gens[g].pc = "done"
    /\ heap' = [heap EXCEPT ![gens[g].response_obj].output =
                                <<OpenAIResponseMessage(gens[g].message)>>,
                            ![gens[g].response_obj].status = "completed"]
    /\ gens' = [gens EXCEPT ![g].pc = "completed"]
    /\ Yield(g, ResponseCompleted(gens[g].response_obj))
    /\ UNCHANGED <<inputVars, parseVars>>

\* mutation: the body loops, so the stream starts over instead of ending
RunToEnd_restart(g) ==
    /\ gens[g].pc \in {"completed", "exhausted"}
    /\ pulls[g] < MaxPulls
    /\ gens' = [gens EXCEPT ![g].pc = "part_added"]
    /\ received' = [received EXCEPT ![g] = Append(@, ContentPartAdded)]
    /\ pulls' = [pulls EXCEPT ![g] = @ + 1]
    /\ UNCHANGED heap
    /\ UNCHANGED <<inputVars, parseVars>>

\* the body returns after the last yield; every later __anext__ raises
\* StopAsyncIteration again and produces no event
RunToEnd(g) ==
    /\ gens[g].pc \in {"completed", "exhausted"}
    /\ pulls[g] < MaxPulls
    /\ gens' = [gens EXCEPT ![g].pc = "exhausted"]
    /\ pulls' = [pulls EXCEPT ![g] = @ + 1]
    /\ UNCHANGED <<heap, received>>
    /\ UNCHANGED <<inputVars, parseVars>>

anext(g) ==
    \/ RunToCreated(g)
    \/ RunToContentPartAdded(g)
    \/ RunToOutputTextDelta(g)
    \/ RunToOutputTextDone(g)
    \/ RunToCompleted(g)
    \/ RunToEnd(g)

StreamIdle ==
    /\ heap = <<>>
    /\ gens = [g \in Invocations |-> NotCalled]
    /\ received = [g \in Invocations |-> <<>>]
    /\ pulls = [g \in Invocations |-> 0]

InputIdle ==
    /\ query_request = [query |-> <<>>, attachments |-> None]
    /\ text_result = None
    /\ input_result = None

ParseIdle ==
    /\ arguments_str = <<>>
    /\ parse_result = None

InitStream == StreamIdle /\ InputIdle /\ ParseIdle

NextStream ==
    \E g \in Invocations :
        \/ \E message \in Messages, shield_model \in ShieldModels :
              create_violation_stream(g, message, shield_model)
        \/ anext(g)

SpecStream == InitStream /\ [][NextStream]_vars

(***************************************************************************)
(* Payload builder                                                         *)
(***************************************************************************)
MaxAttachments == 2

image_png  == <<"i", "m", "a", "g", "e", "/", "p", "n", "g">>
image_jpeg == <<"i", "m", "a", "g", "e", "/", "j", "p", "e", "g">>
image_gif  == <<"i", "m", "a", "g", "e", "/", "g", "i", "f">>
image_webp == <<"i", "m", "a", "g", "e", "/", "w", "e", "b", "p">>
text_plain == <<"t", "e", "x", "t", "/", "p", "l", "a", "i", "n">>
image_bmp  == <<"i", "m", "a", "g", "e", "/", "b", "m", "p">>

\* constants.ATTACHMENT_IMAGE_CONTENT_TYPES
ATTACHMENT_IMAGE_CONTENT_TYPES == {image_png, image_jpeg, image_gif, image_webp}

\* the literal pieces of the f-strings
LabelOpen        == <<"\n", "\n", "[", "A", "t", "t", "a", "c", "h", "m", "e", "n", "t", ":", " ">>
LabelCloseImage  == <<"]", " ", "<", "i", "m", "a", "g", "e", ">">>
LabelCloseText   == <<"]", "\n">>
DataPrefix       == <<"d", "a", "t", "a", ":">>
Base64Marker     == <<";", "b", "a", "s", "e", "6", "4", ",">>

ContentTypes == ATTACHMENT_IMAGE_CONTENT_TYPES \cup {text_plain, image_bmp}
AttachmentTypes == {<<"l", "o", "g">>, <<"s", "c", "r", "e", "e", "n", "s", "h", "o", "t">>}
Contents == {<<"d", "a", "t", "a">>, <<"a", "G", "k", "=">>}
Queries == {<<>>, <<"a">>, <<"d", "a", "t", "a", "?">>}

Attachments == [attachment_type : AttachmentTypes, content_type : ContentTypes,
                content : Contents]

SeqsUpTo(S, n) == UNION {[1..k -> S] : k \in 0..n}

\* attachments is Optional[list[Attachment]]
QueryRequests == [query : Queries,
                  attachments : {None} \cup {Some(l) : l \in SeqsUpTo(Attachments, MaxAttachments)}]

\* `query_request.attachments or []`: None and the empty list are both falsy
AttachmentsOrEmpty(request) ==
    IF request.attachments # None /\ request.attachments[1] # <<>>
    THEN request.attachments[1] ELSE <<>>

\* mutation: the image branch appends the content like the text branch
ImageBlock_leak(attachment) ==
    LabelOpen \o attachment.attachment_type \o LabelCloseText \o attachment.content

\* f"\n\n[Attachment: {attachment.attachment_type}] <image>"
ImageBlock(attachment) == LabelOpen \o attachment.attachment_type \o LabelCloseImage

\* f"\n\n[Attachment: {attachment.attachment_type}]\n{attachment.content}"
TextBlock(attachment) ==
    LabelOpen \o attachment.attachment_type \o LabelCloseText \o attachment.content

\* mutation: the loop walks the attachments from the last to the first
RECURSIVE TextInputLoop_reversed(_, _, _)
TextInputLoop_reversed(attachments, i, input_text) ==
    IF i > Len(attachments) THEN input_text
    ELSE LET attachment == attachments[Len(attachments) + 1 - i] IN
         TextInputLoop_reversed(attachments, i + 1,
             input_text \o LabelOpen \o attachment.attachment_type \o
             (IF attachment.content_type \in {image_png, image_jpeg, image_gif, image_webp}
              THEN LabelCloseImage ELSE LabelCloseText \o attachment.content))

\* the loop of prepare_text_input from its i-th iteration on
RECURSIVE TextInputLoop(_, _, _)
TextInputLoop(attachments, i, input_text) ==
    IF i > Len(attachments) THEN input_text
    ELSE IF attachments[i].content_type \in ATTACHMENT_IMAGE_CONTENT_TYPES
         THEN TextInputLoop(attachments, i + 1, input_text \o ImageBlock(attachments[i]))
         ELSE TextInputLoop(attachments, i + 1, input_text \o TextBlock(attachments[i]))

prepare_text_input(request) ==
    TextInputLoop(AttachmentsOrEmpty(request), 1, request.query)

\* mutation: only the first attachment is inspected
has_images_first(attachments) ==
    /\ Len(attachments) >= 1
    /\ attachments[1].content_type \in {image_png, image_jpeg, image_gif, image_webp}

\* any(a.content_type in ATTACHMENT_IMAGE_CONTENT_TYPES for a in attachments)
has_images(attachments) ==
    \E i \in 1..Len(attachments) :
        attachments[i].content_type \in ATTACHMENT_IMAGE_CONTENT_TYPES

\* mutation: the text-only path separates label and content by a space
RECURSIVE PlainLoop_space(_, _, _)
PlainLoop_space(attachments, i, input_text) ==
    IF i > Len(attachments) THEN input_text
    ELSE PlainLoop_space(attachments, i + 1,
             input_text \o LabelOpen \o attachments[i].attachment_type \o
             <<"]", " ">> \o attachments[i].content)

\* the loop of the text-only path of prepare_input
RECURSIVE PlainLoop(_, _, _)
PlainLoop(attachments, i, input_text) ==
    IF i > Len(attachments) THEN input_text
    ELSE PlainLoop(attachments, i + 1, input_text \o TextBlock(attachments[i]))

\* the first loop of the multimodal path: text of the non-image attachments
RECURSIVE TextContentLoop(_, _, _)
TextContentLoop(attachments, i, text_content) ==
    IF i > Len(attachments) THEN text_content
    ELSE IF attachments[i].content_type \notin ATTACHMENT_IMAGE_CONTENT_TYPES
         THEN TextContentLoop(attachments, i + 1, text_content \o TextBlock(attachments[i]))
         ELSE TextContentLoop(attachments, i + 1, text_content)

\* f"data:{attachment.content_type};base64,{attachment.content}"
ImageItem(attachment) ==
    [type |-> "input_image", detail |-> "auto",
     image_url |-> DataPrefix \o attachment.content_type \o Base64Marker \o attachment.content]

\* the second loop of the multimodal path: one image item per image attachment
RECURSIVE ContentItemsLoop(_, _, _)
ContentItemsLoop(attachments, i, content_items) ==
    IF i > Len(attachments) THEN content_items
    ELSE IF attachments[i].content_type \in ATTACHMENT_IMAGE_CONTENT_TYPES
         THEN ContentItemsLoop(attachments, i + 1, Append(content_items, ImageItem(attachments[i])))
         ELSE ContentItemsLoop(attachments, i + 1, content_items)

prepare_input(request) ==
    LET attachments == AttachmentsOrEmpty(request) IN
    IF ~has_images(attachments)
    THEN [kind |-> "str", value |-> PlainLoop(attachments, 1, request.query)]
    ELSE LET text_content == TextContentLoop(attachments, 1, request.query)
             content_items ==
                 ContentItemsLoop(attachments, 1,
                                  <<[type |-> "input_text", text |-> text_content]>>)
         IN [kind |-> "list",
             value |-> <<[role |-> "user", type |-> "message", content |-> content_items]>>]

CallPrepareTextInput ==
    /\ text_result = None
    /\ text_result' = Some(prepare_text_input(query_request))
    /\ UNCHANGED <<query_request, input_result, streamVars, parseVars>>

CallPrepareInput ==
    /\ input_result = None
    /\ input_result' = Some(prepare_input(query_request))
    /\ UNCHANGED <<query_request, text_result, streamVars, parseVars>>

InitInput ==
    /\ StreamIdle
    /\ ParseIdle
    /\ query_request \in QueryRequests
    /\ text_result = None
    /\ input_result = None

NextInput == CallPrepareTextInput \/ CallPrepareInput

SpecInput == InitInput /\ [][NextInput]_vars

(***************************************************************************)
(* Argument parser                                                         *)
(*                                                                         *)
(* json.loads is modelled as a recursive-descent decoder over characters.  *)
(* A JSON value is a record tagged by t: "int" (n), "str" (s), "list"      *)
(* (items) or "dict" (items: a sequence of [k, v] in insertion order).     *)
(* A decoding step returns [st, v, end]: st is "ok", "ValueError"          *)
(* (json.JSONDecodeError is a ValueError) or "RecursionError"; end is the  *)
(* index after the decoded text.                                           *)
(***************************************************************************)
MaxLen == 5

\* The decoder enters one interpreter recursion level per nested object or
\* array and raises RecursionError when the interpreter's limit is reached.
\* The limit (sys.getrecursionlimit(), 1000 by default) is scaled down so
\* that strings of MaxLen characters reach it.
RecursionLimit == 2

Chars == {"{", "}", "[", "]", "\"", ":", ",", "1", " "}
Whitespace == {" ", "\t", "\n", "\r"}
Digits == {"0", "1", "2", "3", "4", "5", "6", "7", "8", "9"}

ArgumentStrings == SeqsUpTo(Chars, MaxLen)

ValueError == [st |-> "ValueError", v |-> None, end |-> 0]
RecursionError == [st |-> "RecursionError", v |-> None, end |-> 0]
Ok(v, end) == [st |-> "ok", v |-> v, end |-> end]

JInt(n) == [t |-> "int", n |-> n]
JStr(s) == [t |-> "str", s |-> s]
JList(items) == [t |-> "list", items |-> items]
JDict(items) == [t |-> "dict", items |-> items]

\* index of the first non-whitespace character at or after i
RECURSIVE SkipWs(_, _)
SkipWs(s, i) == IF i <= Len(s) /\ s[i] \in Whitespace THEN SkipWs(s, i + 1) ELSE i

\* index of the first character at or after i that is not a digit
RECURSIVE SkipDigits(_, _)
SkipDigits(s, i) == IF i <= Len(s) /\ s[i] \in Digits THEN SkipDigits(s, i + 1) ELSE i

DigitValue(c) == CHOOSE d \in 0..9 : <<"0", "1", "2", "3", "4", "5", "6", "7", "8", "9">>[d + 1] = c

RECURSIVE IntValue(_)
IntValue(digits) ==
    IF digits = <<>> THEN 0
    ELSE 10 * IntValue(SubSeq(digits, 1, Len(digits) - 1)) + DigitValue(digits[Len(digits)])

\* s[i] is the opening quote; the string ends at the next quote
ParseString(s, i) ==
    LET closing == {j \in (i + 1)..Len(s) : s[j] = "\""} IN
    IF closing = {} THEN ValueError
    ELSE LET j == CHOOSE j \in closing : \A k \in closing : j <= k
         IN Ok(JStr(SubSeq(s, i + 1, j - 1)), j + 1)

\* s[i] is a digit other than 0: an integer is the longest run of digits
ParseNumber(s, i) ==
    LET end == SkipDigits(s, i) IN Ok(JInt(IntValue(SubSeq(s, i, end - 1))), end)

\* dict[k] = v: a repeated key keeps its position and takes the last value
DictSet(items, k, v) ==
    IF \E n \in 1..Len(items) : items[n].k = k
    THEN [n \in 1..Len(items) |-> IF items[n].k = k THEN [k |-> k, v |-> v] ELSE items[n]]
    ELSE Append(items, [k |-> k, v |-> v])

RECURSIVE ParseValue(_, _, _), ParseMembers(_, _, _, _), ParseElements(_, _, _, _)

\* a value starting at index i, depth containers being open
ParseValue(s, i, depth) ==
    IF i > Len(s) THEN ValueError
    ELSE IF s[i] = "\"" THEN ParseString(s, i)
    ELSE IF s[i] = "{" THEN
        IF depth >= RecursionLimit THEN RecursionError
        ELSE LET j == SkipWs(s, i + 1) IN
             IF j <= Len(s) /\ s[j] = "}" THEN Ok(JDict(<<>>), j + 1)
             ELSE ParseMembers(s, j, depth + 1, <<>>)
    ELSE IF s[i] = "[" THEN
        IF depth >= RecursionLimit THEN RecursionError
        ELSE LET j == SkipWs(s, i + 1) IN
             IF j <= Len(s) /\ s[j] = "]" THEN Ok(JList(<<>>), j + 1)
             ELSE ParseElements(s, j, depth + 1, <<>>)
    ELSE IF s[i] \in Digits \ {"0"} THEN ParseNumber(s, i)
    ELSE ValueError

\* the members of an object from the key expected at index i
ParseMembers(s, i, depth, items) ==
    IF i > Len(s) \/ s[i] # "\"" THEN ValueError
    ELSE LET key == ParseString(s, i) IN
         IF key.st # "ok" THEN key
         ELSE LET colon == SkipWs(s, key.end) IN
              IF colon > Len(s) \/ s[colon] # ":" THEN ValueError
              ELSE LET val == ParseValue(s, SkipWs(s, colon + 1), depth) IN
                   IF val.st # "ok" THEN val
                   ELSE LET next == SkipWs(s, val.end)
                            grown == DictSet(items, key.v.s, val.v)
                        IN IF next > Len(s) THEN ValueError
                           ELSE IF s[next] = "}" THEN Ok(JDict(grown), next + 1)
                           ELSE IF s[next] = ","
                                THEN ParseMembers(s, SkipWs(s, next + 1), depth, grown)
                           ELSE ValueError

\* the elements of an array from the value expected at index i
ParseElements(s, i, depth, items) ==
    LET val == ParseValue(s, i, depth) IN
    IF val.st # "ok" THEN val
    ELSE LET next == SkipWs(s, val.end)
             grown == Append(items, val.v)
         IN IF next > Len(s) THEN ValueError
            ELSE IF s[next] = "]" THEN Ok(JList(grown), next + 1)
            ELSE IF s[next] = "," THEN ParseElements(s, SkipWs(s, next + 1), depth, grown)
            ELSE ValueError

\* json.loads(s): one value between optional whitespace, nothing after it
json_loads(s) ==
    LET r == ParseValue(s, SkipWs(s, 1), 0) IN
    IF r.st # "ok" THEN r
    ELSE IF SkipWs(s, r.end) <= Len(s) THEN ValueError
    ELSE r

\* str.strip()
RECURSIVE rstrip(_)
rstrip(s) == IF s # <<>> /\ s[Len(s)] \in Whitespace THEN rstrip(SubSeq(s, 1, Len(s) - 1)) ELSE s

strip(s) == rstrip(SubSeq(s, SkipWs(s, 1), Len(s)))

isinstance_dict(r) == r.st = "ok" /\ r.v.t = "dict"

Return(value) == [kind |-> "return", value |-> value]
Raise(exc) == [kind |-> "raise", exc |-> exc]

ArgsKey == <<"a", "r", "g", "s">>

\* lines 137-150: the second attempt and the fallback
WrapAttempt(arguments_str_) ==
    LET stripped == strip(arguments_str_)
        fallback == Return(JDict(<<[k |-> ArgsKey, v |-> JStr(arguments_str_)]>>))
    IN IF stripped # <<>> /\ stripped[1] # "{"
       THEN LET wrapped == <<"{">> \o stripped \o <<"}">>
                parsed == json_loads(wrapped)
            IN IF parsed.st = "RecursionError" THEN Raise("RecursionError")
               ELSE IF isinstance_dict(parsed) THEN Return(parsed.v)
               ELSE fallback
       ELSE fallback

\* `except (json.JSONDecodeError, ValueError)` does not catch RecursionError
parse_arguments_string(arguments_str_) ==
    LET parsed == json_loads(arguments_str_) IN
    IF parsed.st = "RecursionError" THEN Raise("RecursionError")
    ELSE IF isinstance_dict(parsed) THEN Return(parsed.v)
    ELSE WrapAttempt(arguments_str_)

CallParseArgumentsString ==
    /\ parse_result = None
    /\ parse_result' = Some(parse_arguments_string(arguments_str))
    /\ UNCHANGED <<arguments_str, streamVars, inputVars>>

InitParse ==
    /\ StreamIdle
    /\ InputIdle
    /\ arguments_str \in ArgumentStrings
    /\ parse_result = None

NextParse == CallParseArgumentsString

SpecParse == InitParse /\ [][NextParse]_vars

(***************************************************************************)
(* Properties of the violation stream emitter (under SpecStream)           *)
(***************************************************************************)
Min(a, b) == IF a < b THEN a ELSE b

Started(g) == gens[g].pc \notin {"uncalled", "start"}

\* C1 as stated: a stream run to exhaustion has yielded exactly 4 events.
C1_ExactlyFourEvents ==
    \A g \in Invocations : gens[g].pc = "exhausted" => Len(received[g]) = 4

\* C1 amended: for every message and every shield_model, a stream run to
\* exhaustion has yielded exactly 5 events; no stream ever yields more than
\* 5, the pull after the 5th event exhausts it, and no later pull produces
\* an event.
C1_ExactlyFiveEvents ==
    \A g \in Invocations :
        /\ Len(received[g]) <= 5
        /\ gens[g].pc = "exhausted" <=> pulls[g] > 5
        /\ gens[g].pc = "exhausted" => Len(received[g]) = 5

C1_Witness ==
    \E g \in Invocations :
        /\ gens[g].pc = "exhausted"
        /\ pulls[g] >= 7
        /\ Len(received[g]) = 5
        /\ gens[g].shield_model # None

C2_EventTypes ==
    <<"response.created", "response.content_part.added", "response.output_text.delta",
      "response.output_text.done", "response.completed">>

\* C2: the events come in the fixed order ResponseCreated, ContentPartAdded,
\* OutputTextDelta, OutputTextDone, ResponseCompleted, one per pull;
\* ContentPartAdded has an empty text part, content_index 0, sequence_number
\* 0; OutputTextDelta has the whole message as delta, content_index 1,
\* sequence_number 1; OutputTextDone has the whole message as text,
\* content_index 2, sequence_number 2.
C2_FixedOrder ==
    \A g \in Invocations :
        LET r == received[g] IN
        /\ Len(r) = Min(pulls[g], 5)
        /\ \A k \in 1..Len(r) : r[k].type = C2_EventTypes[k]
        /\ Len(r) >= 2 => /\ r[2].part = [type |-> "output_text", text |-> ""]
                          /\ r[2].content_index = 0
                          /\ r[2].sequence_number = 0
        /\ Len(r) >= 3 => /\ r[3].delta = gens[g].message
                          /\ r[3].content_index = 1
                          /\ r[3].sequence_number = 1
        /\ Len(r) >= 4 => /\ r[4].text = gens[g].message
                          /\ r[4].content_index = 2
                          /\ r[4].sequence_number = 2
        /\ \A j, k \in 2..Min(Len(r), 4) :
               j < k => r[j].sequence_number < r[k].sequence_number

C2_Witness ==
    \E g \in Invocations :
        /\ Len(received[g]) = 5
        /\ gens[g].message = "blocked"
        /\ received[g][3].delta = "blocked"

C3_StateInv ==
    \A g \in Invocations :
        /\ gens[g].pc \in {"created", "part_added", "delta", "done"} =>
               /\ heap[gens[g].response_obj].status = "in_progress"
               /\ heap[gens[g].response_obj].output = <<>>
        /\ Len(received[g]) = 5 =>
               LET resp == heap[received[g][5].response] IN
               /\ resp.status = "completed"
               /\ Len(resp.output) = 1
               /\ resp.output[1].role = "assistant"
               /\ resp.output[1].content = <<[type |-> "output_text", text |-> gens[g].message]>>
        /\ Started(g) /\ heap[gens[g].response_obj].status = "completed" =>
               Len(received[g]) = 5

C3_ChangedOnlyByLastStep ==
    \A a \in DOMAIN heap :
        heap'[a] # heap[a] =>
            \E g \in Invocations :
                /\ gens[g].response_obj = a
                /\ gens[g].pc = "done"
                /\ gens'[g].pc = "completed"
                /\ Len(received'[g]) = 5

\* C3: while the emitter is suspended after Created, ContentPartAdded,
\* OutputTextDelta or OutputTextDone its response object is in_progress
\* with empty output; the object changes only in the step that produces the
\* last event; the response of the final ResponseCompleted event is
\* completed and holds exactly one assistant message whose single text
\* content is the message; a stream not pulled to its last event never has a
\* completed response.
C3_ResponseFinalisedOnlyAtLastEvent ==
    [] C3_StateInv /\ [][C3_ChangedOnlyByLastStep]_vars

C3_Witness ==
    \E g, h \in Invocations :
        /\ gens[g].pc = "done"
        /\ heap[gens[g].response_obj].status = "in_progress"
        /\ gens[h].pc = "completed"
        /\ heap[gens[h].response_obj].status = "completed"
        /\ gens[h].message = "blocked"

\* C9 as stated: the response of the first event has the sentinel id, its
\* model is shield_model whenever the caller provides one, and the default
\* label only when none is provided.
C9_ModelIsShieldModelWheneverProvided ==
    \A g \in Invocations :
        Len(received[g]) >= 1 =>
            LET resp == heap[received[g][1].response] IN
            /\ resp.id = "resp_shield_violation"
            /\ gens[g].shield_model # None => resp.model = gens[g].shield_model[1]
            /\ resp.model = "shield" => gens[g].shield_model = None

\* C9 amended: the response of the first event has the sentinel id; its
\* model equals shield_model for every non-empty shield_model the caller
\* provides, and equals the default label "shield" when shield_model is
\* absent or the empty string.
C9_ModelIsShieldModelWhenNonEmpty ==
    \A g \in Invocations :
        Len(received[g]) >= 1 =>
            LET resp == heap[received[g][1].response]
                given == gens[g].shield_model
            IN /\ resp.id = "resp_shield_violation"
               /\ (given # None /\ given[1] # "") => resp.model = given[1]
               /\ (given = None \/ given = Some("")) => resp.model = "shield"

C9_Witness ==
    \E g, h \in Invocations :
        /\ Len(received[g]) >= 1
        /\ gens[g].shield_model = Some("")
        /\ Len(received[h]) >= 1
        /\ gens[h].shield_model = Some("llama-guard")
        /\ heap[received[h][1].response].model = "llama-guard"

C10_StateInv ==
    /\ \A g \in Invocations :
          LET r == received[g] IN
          /\ Len(r) >= 1 => r[1].response = gens[g].response_obj
          /\ Len(r) \in 1..4 => /\ heap[r[1].response].status = "in_progress"
                                /\ heap[r[1].response].output = <<>>
          /\ Len(r) = 5 => /\ r[5].response = r[1].response
                           /\ heap[r[1].response].status = "completed"
                           /\ heap[r[1].response].output =
                                  <<[id |-> "msg_shield_violation_4",
                                     content |-> <<[type |-> "output_text",
                                                    text |-> gens[g].message]>>,
                                     role |-> "assistant", status |-> "completed"]>>
    /\ \A g, h \in Invocations :
          (g # h /\ Started(g) /\ Started(h)) => gens[g].response_obj # gens[h].response_obj

C10_IdAndModelKept ==
    \A a \in DOMAIN heap : heap'[a].id = heap[a].id /\ heap'[a].model = heap[a].model

\* C10: the ResponseCreated and the ResponseCompleted event of one invocation
\* wrap the same response object: seen through the retained ResponseCreated
\* event it is in_progress with empty output until the final step and
\* completed with the one assistant message afterwards; the mutation never
\* changes its id or model; two invocations never share a response object.
C10_OneSharedResponsePerInvocation ==
    [] C10_StateInv /\ [][C10_IdAndModelKept]_vars

C10_Witness ==
    \E g, h \in Invocations :
        /\ g # h
        /\ gens[g].pc = "exhausted"
        /\ heap[received[g][1].response].status = "completed"
        /\ Len(received[h]) = 4
        /\ heap[received[h][1].response].status = "in_progress"

(***************************************************************************)
(* Properties of the payload builder (under SpecInput)                     *)
(***************************************************************************)
\* the attachment list of the request, an absent list read as an empty one
GivenAttachments ==
    IF query_request.attachments = None THEN <<>> ELSE query_request.attachments[1]

ImageSet == {<<"i", "m", "a", "g", "e", "/", "p", "n", "g">>,
             <<"i", "m", "a", "g", "e", "/", "j", "p", "e", "g">>,
             <<"i", "m", "a", "g", "e", "/", "g", "i", "f">>,
             <<"i", "m", "a", "g", "e", "/", "w", "e", "b", "p">>}

IsImage(attachment) == attachment.content_type \in ImageSet
IsNotImage(attachment) == ~IsImage(attachment)

Placeholder == <<"<", "i", "m", "a", "g", "e", ">">>

Contains(s, sub) ==
    \E i \in 0..(Len(s) - Len(sub)) : SubSeq(s, i + 1, i + Len(sub)) = sub

Label(attachment) == <<"\n", "\n", "[", "A", "t", "t", "a", "c", "h", "m", "e", "n", "t", ":", " ">> \o attachment.attachment_type \o <<"]">>

ExpectedBlock(attachment) ==
    IF IsImage(attachment)
    THEN Label(attachment) \o <<" ">> \o Placeholder
    ELSE Label(attachment) \o <<"\n">> \o attachment.content

\* the blocks of a list of attachments, joined in list order
RECURSIVE JoinBlocks(_)
JoinBlocks(attachments) ==
    IF attachments = <<>> THEN <<>>
    ELSE ExpectedBlock(Head(attachments)) \o JoinBlocks(Tail(attachments))

\* C4: prepare_input returns a plain string iff no attachment has an image
\* content_type; otherwise a list of exactly one message {role: user, type:
\* message} whose content is one input_text item (the query followed by the
\* blocks of the non-image attachments, in order) followed by one
\* input_image item per image attachment, in order, with detail auto and
\* image_url = "data:" + content_type + ";base64," + content.
C4_StringIffNoImage ==
    input_result # None =>
        LET r == input_result[1]
            images == SelectSeq(GivenAttachments, IsImage)
            others == SelectSeq(GivenAttachments, IsNotImage)
        IN /\ r.kind = "str" <=> images = <<>>
           /\ r.kind # "str" =>
                /\ r.kind = "list"
                /\ Len(r.value) = 1
                /\ DOMAIN r.value[1] = {"role", "type", "content"}
                /\ r.value[1].role = "user"
                /\ r.value[1].type = "message"
                /\ Len(r.value[1].content) = 1 + Len(images)
                /\ r.value[1].content[1] =
                       [type |-> "input_text", text |-> query_request.query \o JoinBlocks(others)]
                /\ \A i \in 1..Len(images) :
                       r.value[1].content[i + 1] =
                           [type |-> "input_image", detail |-> "auto",
                            image_url |-> <<"d", "a", "t", "a", ":">> \o images[i].content_type \o
                                          <<";", "b", "a", "s", "e", "6", "4", ",">> \o images[i].content]

C4_Witness ==
    /\ input_result # None
    /\ Len(GivenAttachments) = 2
    /\ IsNotImage(GivenAttachments[1])
    /\ GivenAttachments[2].content_type = <<"i", "m", "a", "g", "e", "/", "w", "e", "b", "p">>
    /\ input_result[1].kind = "list"
    /\ Len(input_result[1].value[1].content) = 2

\* C5 as stated: the raw content of an image attachment never appears as a
\* substring of the string returned by prepare_text_input, while <image>
\* does.
C5_ImageContentNeverSubstring ==
    text_result # None =>
        \A i \in 1..Len(GivenAttachments) :
            IsImage(GivenAttachments[i]) =>
                /\ ~Contains(text_result[1], GivenAttachments[i].content)
                /\ Contains(text_result[1], Placeholder)

WithContent(request, i, content) ==
    [request EXCEPT !.attachments[1][i].content = content]

\* C5 amended: the content of an image attachment is never copied into the
\* string returned by prepare_text_input: the returned string is the same
\* whatever the content of that attachment is, and <image> appears in it.
C5_ImageContentNotCopied ==
    text_result # None =>
        \A i \in 1..Len(GivenAttachments) :
            IsImage(GivenAttachments[i]) =>
                /\ Contains(text_result[1], Placeholder)
                /\ \A content \in Contents :
                       prepare_text_input(WithContent(query_request, i, content)) =
                           text_result[1]

C5_Witness ==
    /\ text_result # None
    /\ \E i \in 1..Len(GivenAttachments) :
           /\ IsImage(GivenAttachments[i])
           /\ Contains(text_result[1], GivenAttachments[i].content)
           /\ Contains(text_result[1], Placeholder)

\* C6: when no attachment has an image content_type (the attachment list may
\* be absent or empty), prepare_input returns exactly the string that
\* prepare_text_input returns.
C6_TextOnlyPathsAgree ==
    (text_result # None /\ input_result # None /\
     SelectSeq(GivenAttachments, IsImage) = <<>>) =>
        /\ input_result[1].kind = "str"
        /\ input_result[1].value = text_result[1]

C6_Witness ==
    /\ text_result # None
    /\ input_result # None
    /\ Len(GivenAttachments) = 2
    /\ SelectSeq(GivenAttachments, IsImage) = <<>>
    /\ input_result[1].kind = "str"

\* C7: prepare_text_input returns the query followed by exactly one block
\* per attachment, in list order, and nothing else: label + " <image>" for
\* an image attachment, label + newline + content for any other one; an
\* absent or empty list gives exactly the query.
C7_QueryThenOneBlockPerAttachment ==
    text_result # None =>
        /\ text_result[1] = query_request.query \o JoinBlocks(GivenAttachments)
        /\ GivenAttachments = <<>> => text_result[1] = query_request.query

C7_Witness ==
    /\ text_result # None
    /\ Len(GivenAttachments) = 2
    /\ IsImage(GivenAttachments[1])
    /\ GivenAttachments[2].content_type = <<"i", "m", "a", "g", "e", "/", "b", "m", "p">>
    /\ GivenAttachments[1].attachment_type # GivenAttachments[2].attachment_type

(***************************************************************************)
(* Properties of the argument parser (under SpecParse)                     *)
(***************************************************************************)
IsMapping(r) == r.st = "ok" /\ r.v.t = "dict"

\* C8: for every input string parse_arguments_string does not fail and
\* returns a mapping: the mapping the string parses to as-is; otherwise,
\* when the trimmed string is non-empty and does not start with "{", the
\* mapping the trimmed string in braces parses to; in every other case
\* {"args": raw} with the original, untrimmed string.
C8_NeverFailsThreeTiers ==
    parse_result # None =>
        LET out == parse_result[1]
            raw == arguments_str
            trimmed == strip(raw)
            asIs == json_loads(raw)
            inBraces == json_loads(<<"{">> \o trimmed \o <<"}">>)
        IN /\ out.kind = "return"
           /\ out.value.t = "dict"
           /\ IF IsMapping(asIs) THEN out.value = asIs.v
              ELSE IF trimmed # <<>> /\ Head(trimmed) # "{" /\ IsMapping(inBraces)
                   THEN out.value = inBraces.v
              ELSE out.value = [t |-> "dict",
                                items |-> <<[k |-> <<"a", "r", "g", "s">>,
                                             v |-> [t |-> "str", s |-> raw]]>>]

\* the three tiers as C8 states them, on the inputs that do not exhaust the
\* decoder's recursion
C8_TiersWhenReturned ==
    (parse_result # None /\ parse_result[1].kind = "return") => C8_NeverFailsThreeTiers

====
